---------------------------- MODULE Spec2Model ----------------------------
(***************************************************************************)
(* Model of backend/app.py and backend/db_init.py: a Flask application     *)
(* over a SQLite store with three tables (users, completions, ratings).    *)
(* Every request is served by its own thread; one step of the model is the *)
(* local computation of a request up to and including one SQL statement    *)
(* (query_db reads the committed store, execute_db writes and commits).    *)
(***************************************************************************)
EXTENDS Integers, Sequences, FiniteSets, TLC

(***************************************************************************)
(* Bounds of the model                                                     *)
(***************************************************************************)
\* number of requests that can be in flight at the same time
NumReqs == 2
\* number of rows the users table can hold
MaxUsers == 2
\* the clock advances MaxTick times, and a presented token was issued up to
\* MaxTick clock steps ago
MaxTick == 3

Reqs == 1..NumReqs

(***************************************************************************)
(* Python values                                                           *)
(***************************************************************************)
\* Optional values: None is the empty tuple, a value x is <<x>>
None == <<>>
Some(x) == <<x>>
IsNone(o) == o = <<>>
Val(o) == o[1]

\* str(n) and int(s) on decimal strings, a string being a tuple of characters
Digits == <<"0", "1", "2", "3", "4", "5", "6", "7", "8", "9">>

RECURSIVE PyStr(_)
PyStr(n) ==
  IF n < 10 THEN <<Digits[n + 1]>>
  ELSE Append(PyStr(n \div 10), Digits[(n % 10) + 1])

DigitVal(ch) == CHOOSE d \in 0..9 : Digits[d + 1] = ch
IsDigit(ch) == \E d \in 0..9 : Digits[d + 1] = ch

RECURSIVE PyIntDigits(_)
PyIntDigits(s) ==
  IF Len(s) = 1 THEN DigitVal(s[1])
  ELSE 10 * PyIntDigits(SubSeq(s, 1, Len(s) - 1)) + DigitVal(s[Len(s)])

\* int(s): the value, or raised (ValueError) when s is no decimal number
PyInt(s) ==
  IF Len(s) > 0 /\ \A i \in 1..Len(s) : IsDigit(s[i])
  THEN [raised |-> FALSE, value |-> PyIntDigits(s)]
  ELSE [raised |-> TRUE, value |-> 0]

(***************************************************************************)
(* Configuration and inputs                                                *)
(***************************************************************************)
JWT_SECRET == "dev-secret-change-me"
JWT_ALGO == "HS256"
OtherSecret == "another-secret"

\* make_token's default lifetime, in minutes
expires_minutes == 60 * 24 * 7
\* the clock advances in steps of half a token lifetime
TickMinutes == expires_minutes \div 2
\* how long ago a token was issued
Ages == {k * TickMinutes : k \in 0..MaxTick}

\* awarded by complete_course per course
points_awarded == 100

\* course ids a client sends; "" stands for a missing course_id
Courses == {"c1"}
CourseInputs == Courses \cup {""}
\* JSON values: null (also a missing key), a number in tenths, a string
JsonNull == [kind |-> "null", tenths |-> 0, text |-> <<>>]
JsonNumber(tenths) == [kind |-> "number", tenths |-> tenths, text |-> <<>>]
JsonString(text) == [kind |-> "string", tenths |-> 0, text |-> text]

\* ratings a client sends: none, 1, 5, 6, 5.5 and "abc"
RatingInputs ==
  {JsonNull, JsonNumber(10), JsonNumber(50), JsonNumber(60), JsonNumber(55),
   JsonString(<<"a", "b", "c">>)}

\* what clients send to rate_course: every rating for the course, and a
\* request without course_id
RateInputs ==
  {[course_id |-> c, rating |-> x] : c \in Courses, x \in RatingInputs}
  \cup {[course_id |-> "", rating |-> JsonNumber(50)]}

\* int(data.get('rating') or 0): int() cuts the fraction of a number off and
\* raises ValueError on a string that is no decimal number
int_rating(data_rating) ==
  IF data_rating.kind = "null" THEN [raised |-> FALSE, value |-> 0]
  ELSE IF data_rating.kind = "number"
    THEN [raised |-> FALSE, value |-> data_rating.tenths \div 10]
  ELSE IF data_rating.text = <<>> THEN [raised |-> FALSE, value |-> 0]
  ELSE PyInt(data_rating.text)

\* what clients send to register: two well-formed users, the first one again
\* with the email in another case, and the malformed requests
RegisterInputs ==
  {[username |-> "ann", email |-> "ann@x.org", password |-> "secret1"],
   [username |-> "bob", email |-> "bob@x.org", password |-> "secret1"],
   [username |-> "ann", email |-> "Ann@X.org", password |-> "secret1"],
   [username |-> "", email |-> "ann@x.org", password |-> "secret1"],
   [username |-> "ann", email |-> "", password |-> "secret1"],
   [username |-> "ann", email |-> "ann@x.org", password |-> "short"],
   [username |-> "ann", email |-> "ann@x.org", password |-> ""]}
Salts == {"s1"}

\* what clients send to login: the right and a wrong password for both
\* users, and the requests with a field missing
LoginInputs ==
  {[email |-> "Ann@X.org", password |-> "secret1"],
   [email |-> "Ann@X.org", password |-> "wrong-1"],
   [email |-> "bob@x.org", password |-> "secret1"],
   [email |-> "bob@x.org", password |-> "wrong-1"],
   [email |-> "", password |-> "secret1"],
   [email |-> "Ann@X.org", password |-> ""]}

\* the course catalog (data/courses.json) as the list of its course ids; the
\* empty list is also what courses() uses when the file cannot be read
Catalog == <<"c1", "c2">>
CatalogInputs == {Catalog, <<>>}

\* (data.get('email') or '').strip().lower() on the inputs above
Lower(e) == IF e = "Ann@X.org" THEN "ann@x.org" ELSE e

\* werkzeug's salted one-way hash: the digest of salt and password
generate_password_hash(password, salt) ==
  [salt |-> salt, digest |-> <<salt, password>>]
check_password_hash(pwhash, password) ==
  pwhash.digest = <<pwhash.salt, password>>

(***************************************************************************)
(* Tokens (PyJWT)                                                          *)
(***************************************************************************)
\* a token is its payload and the key that signed it; a string that is no
\* JWT at all has wellformed = FALSE
Garbage == [wellformed |-> FALSE, sub |-> <<>>, exp |-> 0, key |-> ""]

jwt_encode(payload, key) ==
  [wellformed |-> TRUE, sub |-> payload.sub, exp |-> payload.exp, key |-> key]

\* jwt.decode: raises on a malformed token, a bad signature, an expired token
jwt_decode(token, key, t) ==
  IF ~token.wellformed THEN [raised |-> TRUE, exc |-> "DecodeError", sub |-> <<>>]
  ELSE IF token.key # key
    THEN [raised |-> TRUE, exc |-> "InvalidSignatureError", sub |-> <<>>]
  ELSE IF token.exp <= t
    THEN [raised |-> TRUE, exc |-> "ExpiredSignatureError", sub |-> <<>>]
  ELSE [raised |-> FALSE, exc |-> "", sub |-> token.sub]

\* make_token with the lifetime left out: exp is the time of issue
make_token_without_lifetime(user_id, t) ==
  jwt_encode([sub |-> PyStr(user_id), exp |-> t], JWT_SECRET)

\* make_token that names the first user whoever it is called for
make_token_for_first_user(user_id, t) ==
  jwt_encode([sub |-> PyStr(1), exp |-> t + expires_minutes], JWT_SECRET)

make_token(user_id, t) ==
  jwt_encode([sub |-> PyStr(user_id), exp |-> t + expires_minutes], JWT_SECRET)

\* verify_token without the outer try: what jwt.decode raises leaves it
verify_token_without_try(token, t) ==
  LET payload == jwt_decode(token, JWT_SECRET, t) IN
  IF payload.raised THEN [raised |-> TRUE, value |-> None]
  ELSE LET n == PyInt(payload.sub) IN
       IF n.raised THEN [raised |-> FALSE, value |-> None]
       ELSE [raised |-> FALSE, value |-> Some(n.value)]

\* verify_token: the user id, or None; raised tells whether an exception
\* left the function
verify_token(token, t) ==
  LET payload == jwt_decode(token, JWT_SECRET, t) IN
  IF payload.raised THEN [raised |-> FALSE, value |-> None]
  ELSE LET n == PyInt(payload.sub) IN
       IF n.raised THEN [raised |-> FALSE, value |-> None]
       ELSE [raised |-> FALSE, value |-> Some(n.value)]


(***************************************************************************)
(* State                                                                   *)
(***************************************************************************)
VARIABLES
  users,        \* table users: rows [id, username, email, password_hash, points]
  completions,  \* table completions: rows [id, user_id, course_id]
  ratings,      \* table ratings: rows [id, user_id, course_id, rating]
  now,          \* the server's clock (datetime.utcnow()), in minutes
  req,          \* the requests in flight: locals, position and response
  connections   \* the number of open connections to the store

vars == <<users, completions, ratings, now, req, connections>>

\* the Authorization header: the text before the token and the token
NoHeader == [scheme |-> "", token |-> Garbage]

NoResp ==
  [status |-> 0, error |-> "", message |-> "", exc |-> "", user |-> None,
   token |-> None, points_awarded |-> None, average |-> None, count |-> None,
   completions |-> {}, ratings |-> {}, courses |-> {}]

\* g_database is flask's g._database (None while the attribute is not set);
\* connects counts the calls of sqlite3.connect this request has made
IdleReq ==
  [pc |-> "idle", op |-> "", auth |-> NoHeader, user |-> None,
   course_id |-> "", data_rating |-> JsonNull, rating |-> 0, existing |-> None,
   username |-> "", email |-> "", password |-> "", user_id |-> 0,
   rows |-> {}, pending |-> <<>>, resp |-> NoResp,
   g_database |-> None, connects |-> 0]

\* jsonify(body), status
Respond(rq, status, body) ==
  [rq EXCEPT !.pc = "done", !.resp = [f \in DOMAIN NoResp |->
      IF f = "status" THEN status
      ELSE IF f \in DOMAIN body THEN body[f] ELSE NoResp[f]]]

\* an exception that leaves the view function: Flask answers 500
Raise(rq, exc) == Respond(rq, 500, [exc |-> exc])

\* get_db that connects on every call and forgets the connection it held
get_db_without_cache(rq) ==
  [rq EXCEPT !.g_database = Some("open"), !.connects = @ + 1]

\* get_db: the request's connection, opened on first use
get_db(rq) ==
  IF IsNone(rq.g_database)
  THEN [rq EXCEPT !.g_database = Some("open"), !.connects = @ + 1]
  ELSE rq

\* the connections request r has opened in this step are open
Connect(r) == connections' = connections + (req'[r].connects - req[r].connects)

\* close_connection (teardown): the number of connections it closes
close_connection(rq) == IF IsNone(rq.g_database) THEN 0 ELSE 1

(***************************************************************************)
(* The store (SQLite, schema of db_init.py)                                *)
(***************************************************************************)
\* INTEGER PRIMARY KEY AUTOINCREMENT: one more than the largest id so far
NextId(table) ==
  IF table = {} THEN 1
  ELSE 1 + (CHOOSE n \in {row.id : row \in table} :
              \A m \in {row.id : row \in table} : m <= n)

\* the columns id, username, email, points of a users row
UserColumns(row) ==
  [id |-> row.id, username |-> row.username, email |-> row.email,
   points |-> row.points]

\* the query without its WHERE clause: the first row of users
SelectFirstUser(id) ==
  IF users = {} THEN None
  ELSE Some(UserColumns(CHOOSE row \in users : \A x \in users : row.id <= x.id))

\* SELECT id, username, email, points FROM users WHERE id = ? (one=True)
SelectUser(id) ==
  IF \E row \in users : row.id = id
  THEN Some(UserColumns(CHOOSE row \in users : row.id = id))
  ELSE None

\* the users table without its UNIQUE constraints
UsersNotUnique(username, email) == FALSE

\* users: username TEXT UNIQUE, email TEXT UNIQUE
UsersUniqueViolated(username, email) ==
  \E row \in users : row.username = username \/ row.email = email

\* the completions table without its UNIQUE(user_id, course_id)
CompletionsNotUnique(user_id, course_id) == FALSE

\* completions: UNIQUE(user_id, course_id)
CompletionsUniqueViolated(user_id, course_id) ==
  \E row \in completions : row.user_id = user_id /\ row.course_id = course_id

\* the ratings table without its UNIQUE(user_id, course_id)
RatingsNotUnique(user_id, course_id) == FALSE

\* ratings: UNIQUE(user_id, course_id)
RatingsUniqueViolated(user_id, course_id) ==
  \E row \in ratings : row.user_id = user_id /\ row.course_id = course_id

\* the query with the user forgotten: WHERE course_id = ?
SelectCompletionOfAnyUser(user_id, course_id) ==
  LET found == {row \in completions : row.course_id = course_id} IN
  IF found = {} THEN None ELSE Some((CHOOSE row \in found : TRUE).id)

\* SELECT id FROM completions WHERE user_id = ? AND course_id = ? (one=True)
SelectCompletion(user_id, course_id) ==
  LET found == {row \in completions :
                  row.user_id = user_id /\ row.course_id = course_id} IN
  IF found = {} THEN None ELSE Some((CHOOSE row \in found : TRUE).id)

\* the query with the user forgotten: WHERE course_id = ?
SelectRatingOfAnyUser(user_id, course_id) ==
  LET found == {row \in ratings : row.course_id = course_id} IN
  IF found = {} THEN None ELSE Some((CHOOSE row \in found : TRUE).id)

\* SELECT id FROM ratings WHERE user_id = ? AND course_id = ? (one=True)
SelectRating(user_id, course_id) ==
  LET found == {row \in ratings :
                  row.user_id = user_id /\ row.course_id = course_id} IN
  IF found = {} THEN None ELSE Some((CHOOSE row \in found : TRUE).id)

\* ratings: CHECK(rating >= 1 AND rating <= 5)
RatingsCheckViolated(rating) == ~(rating >= 1 /\ rating <= 5)

\* the aggregate over the distinct ratings: AVG(DISTINCT rating) and
\* COUNT(DISTINCT rating)
SelectAvgCountDistinct(course_id) ==
  LET values == {row.rating : row \in {x \in ratings : x.course_id = course_id}}
      total == 1 * Cardinality(values \cap {1}) + 2 * Cardinality(values \cap {2})
               + 3 * Cardinality(values \cap {3}) + 4 * Cardinality(values \cap {4})
               + 5 * Cardinality(values \cap {5}) IN
  [avg_rating |-> IF values = {} THEN None
                  ELSE Some(<<total, Cardinality(values)>>),
   count |-> Cardinality(values)]

RECURSIVE SumRatings(_)
SumRatings(rows) ==
  IF rows = {} THEN 0
  ELSE LET row == CHOOSE x \in rows : TRUE
       IN row.rating + SumRatings(rows \ {row})

\* SELECT AVG(rating) as avg_rating, COUNT(*) as count FROM ratings
\* WHERE course_id = ?: the average is the quotient sum/count, NULL of no row
SelectAvgCount(course_id) ==
  LET rows == {row \in ratings : row.course_id = course_id} IN
  [avg_rating |-> IF rows = {} THEN None
                  ELSE Some(<<SumRatings(rows), Cardinality(rows)>>),
   count |-> Cardinality(rows)]

Init ==
  /\ users = {}
  /\ completions = {}
  /\ ratings = {}
  /\ now = 0
  /\ req = [r \in Reqs |-> IdleReq]
  /\ connections = 0

(***************************************************************************)
(* POST /api/register                                                      *)
(***************************************************************************)
\* register's validation with a minimum length of 5
InvalidInputMin5(username, email, password) ==
  username = "" \/ email = "" \/ password = "" \/ Len(password) < 5

\* not username or not email or not password or len(password) < 6
InvalidInput(username, email, password) ==
  username = "" \/ email = "" \/ password = "" \/ Len(password) < 6

\* register, up to the query for an existing user
register(r) ==
  /\ req[r].pc = "idle"
  /\ \E data \in RegisterInputs :
       LET username == data.username
           email == Lower(data.email)
           password == data.password
           rq == [IdleReq EXCEPT !.op = "register", !.username = username,
                                 !.email = email, !.password = password]
       IN
       req' = [req EXCEPT ![r] =
         IF InvalidInput(username, email, password)
         THEN Respond(rq, 400, [error |->
                "Invalid input, provide username, email and password (min 6 chars)"])
         ELSE IF \E row \in users : row.email = email \/ row.username = username
         THEN Respond(get_db(rq), 400, [error |->
                "User with that email or username already exists"])
         ELSE [get_db(rq) EXCEPT !.pc = "reg_insert"]]
  /\ Connect(r)
  /\ UNCHANGED <<users, completions, ratings, now>>

\* register: INSERT INTO users, then make_token
register_insert(r) ==
  /\ req[r].pc = "reg_insert"
  \* the users table of the model holds MaxUsers rows
  /\ \/ UsersUniqueViolated(req[r].username, req[r].email)
     \/ Cardinality(users) < MaxUsers
  /\ LET rq == get_db(req[r]) IN
     IF UsersUniqueViolated(rq.username, rq.email)
     THEN /\ req' = [req EXCEPT ![r] = Raise(rq, "IntegrityError")]
          /\ UNCHANGED users
     ELSE \E salt \in Salts :
          LET user_id == NextId(users) IN
          /\ users' = users \cup
               {[id |-> user_id, username |-> rq.username, email |-> rq.email,
                 password_hash |-> generate_password_hash(rq.password, salt),
                 points |-> 0]}
          /\ req' = [req EXCEPT ![r] =
               [rq EXCEPT !.pc = "reg_read", !.user_id = user_id,
                          !.password = "",
                          !.resp.token = Some(make_token(user_id, now))]]
  /\ Connect(r)
  /\ UNCHANGED <<completions, ratings, now>>

\* register: read the new row back and answer
register_respond(r) ==
  /\ req[r].pc = "reg_read"
  /\ LET rq == get_db(req[r]) IN
     req' = [req EXCEPT ![r] =
       Respond(rq, 200, [token |-> rq.resp.token, user |-> SelectUser(rq.user_id)])]
  /\ Connect(r)
  /\ UNCHANGED <<users, completions, ratings, now>>

(***************************************************************************)
(* POST /api/login                                                         *)
(***************************************************************************)
\* SELECT id, username, email, password_hash, points FROM users
\* WHERE email = ? (one=True), on a users table
SelectUserByEmail(table, email) ==
  IF \E row \in table : row.email = email
  THEN Some(CHOOSE row \in table : row.email = email)
  ELSE None

\* login() that tells the caller when there is no user with the email
login_response_no_such_user(table, rq) ==
  IF rq.email = "" \/ rq.password = ""
  THEN Respond(rq, 400, [error |-> "Missing email/password"])
  ELSE LET user == SelectUserByEmail(table, rq.email) IN
       IF IsNone(user)
       THEN Respond(get_db(rq), 404, [error |-> "No such user"])
       ELSE IF ~check_password_hash(Val(user).password_hash, rq.password)
       THEN Respond(get_db(rq), 401, [error |-> "Invalid credentials"])
       ELSE Respond(get_db(rq), 200,
              [token |-> Some(make_token(Val(user).id, now)),
               user |-> Some(UserColumns(Val(user)))])

\* login(): the answered request, for the users table the query reads
login_response(table, rq) ==
  IF rq.email = "" \/ rq.password = ""
  THEN Respond(rq, 400, [error |-> "Missing email/password"])
  ELSE LET user == SelectUserByEmail(table, rq.email) IN
       IF IsNone(user)
       THEN Respond(get_db(rq), 401, [error |-> "Invalid credentials"])
       ELSE IF ~check_password_hash(Val(user).password_hash, rq.password)
       THEN Respond(get_db(rq), 401, [error |-> "Invalid credentials"])
       ELSE Respond(get_db(rq), 200,
              [token |-> Some(make_token(Val(user).id, now)),
               user |-> Some(UserColumns(Val(user)))])

login(r) ==
  /\ req[r].pc = "idle"
  /\ \E data \in LoginInputs :
       req' = [req EXCEPT ![r] =
         login_response(users, [IdleReq EXCEPT !.op = "login",
                                               !.email = Lower(data.email),
                                               !.password = data.password])]
  /\ Connect(r)
  /\ UNCHANGED <<users, completions, ratings, now>>

\* the response is delivered, the application context is torn down and
\* the request is over
finish(r) ==
  /\ req[r].pc = "done"
  /\ connections' = connections - close_connection(req[r])
  /\ req' = [req EXCEPT ![r] = IdleReq]
  /\ UNCHANGED <<users, completions, ratings, now>>

\* time passes
Tick ==
  /\ now < MaxTick * TickMinutes
  /\ now' = now + TickMinutes
  /\ UNCHANGED <<users, completions, ratings, req, connections>>

(***************************************************************************)
(* auth_required                                                           *)
(***************************************************************************)
ProtectedOps == {"me", "complete_course", "rate_course"}

\* the tokens a client presents: no JWT at all, one signed with another
\* secret, one whose subject is no number, and the tokens make_token issued
\* some time ago (or a holder of the secret forged) for the ids 1..MaxUsers
\* and for the id 0
PresentedTokens ==
  {Garbage,
   jwt_encode([sub |-> PyStr(1), exp |-> now + expires_minutes], OtherSecret),
   jwt_encode([sub |-> <<"a", "b">>, exp |-> now + expires_minutes], JWT_SECRET)}
  \cup {make_token(id, now - age) : id \in 1..MaxUsers, age \in Ages}
  \cup {make_token(0, now)}

Headers ==
  {NoHeader, [scheme |-> "Basic ", token |-> Garbage]}
  \cup {[scheme |-> "Bearer ", token |-> tk] : tk \in PresentedTokens}

\* the headers with a token that make_token issued to a client, fresh or old
IssuedHeaders ==
  {[scheme |-> "Bearer ", token |-> make_token(id, now - age)] :
     id \in 1..MaxUsers, age \in Ages}

\* the requests for protected operations: every header is tried on /api/me,
\* the headers with issued tokens on every operation
GuardInputs ==
  {[op |-> "me", auth |-> auth] : auth \in Headers}
  \cup {[op |-> op, auth |-> auth] : op \in ProtectedOps, auth \in IssuedHeaders}

\* wrapper() that trusts the token and does not look for the user's row
wrapper_without_user_row(rq) ==
  LET Unauthorized == Respond(rq, 401, [error |-> "Unauthorized"]) IN
  IF rq.auth.scheme = "Bearer "
  THEN LET user_id == verify_token(rq.auth.token, now) IN
       IF user_id.raised THEN Raise(rq, "PyJWTError")
       ELSE IF ~IsNone(user_id.value) /\ Val(user_id.value) # 0
       THEN [rq EXCEPT !.pc = rq.op,
                       !.user = Some([id |-> Val(user_id.value), username |-> "",
                                      email |-> "", points |-> 0])]
       ELSE Unauthorized
  ELSE Unauthorized

\* wrapper(): the request after the guard, either at the start of the view
\* function with g.current_user set, or answered 401
wrapper(rq) ==
  LET Unauthorized == Respond(rq, 401, [error |-> "Unauthorized"]) IN
  IF rq.auth.scheme = "Bearer "
  THEN LET user_id == verify_token(rq.auth.token, now) IN
       IF user_id.raised THEN Raise(rq, "PyJWTError")
       ELSE IF ~IsNone(user_id.value) /\ Val(user_id.value) # 0
       THEN LET user == SelectUser(Val(user_id.value)) IN
            IF ~IsNone(user) THEN [get_db(rq) EXCEPT !.pc = rq.op, !.user = user]
            ELSE Respond(get_db(rq), 401, [error |-> "Unauthorized"])
       ELSE Unauthorized
  ELSE Unauthorized

\* a request for a protected operation arrives and passes through the guard
auth_required(r) ==
  /\ req[r].pc = "idle"
  /\ \E in \in GuardInputs :
       req' = [req EXCEPT ![r] =
                 wrapper([IdleReq EXCEPT !.op = in.op, !.auth = in.auth])]
  /\ Connect(r)
  /\ UNCHANGED <<users, completions, ratings, now>>

\* the view function runs: the wrapper's locals are dead
Enter(rq) == [rq EXCEPT !.auth = NoHeader]

(***************************************************************************)
(* GET /api/me                                                             *)
(***************************************************************************)
me_completions(r) ==
  /\ req[r].pc = "me"
  /\ LET rq == get_db(Enter(req[r]))
         user == Val(rq.user) IN
     req' = [req EXCEPT ![r] =
       [rq EXCEPT !.pc = "me_ratings",
                  !.rows = {[course_id |-> row.course_id] :
                              row \in {x \in completions : x.user_id = user.id}}]]
  /\ Connect(r)
  /\ UNCHANGED <<users, completions, ratings, now>>

me_ratings(r) ==
  /\ req[r].pc = "me_ratings"
  /\ LET rq == get_db(req[r])
         user == Val(rq.user) IN
     req' = [req EXCEPT ![r] =
       Respond([rq EXCEPT !.rows = {}], 200,
         [user |-> rq.user, completions |-> rq.rows,
          ratings |-> {[course_id |-> row.course_id, rating |-> row.rating] :
                         row \in {x \in ratings : x.user_id = user.id}}])]
  /\ Connect(r)
  /\ UNCHANGED <<users, completions, ratings, now>>

(***************************************************************************)
(* POST /api/complete_course                                               *)
(***************************************************************************)
\* up to the query for an existing completion
complete_course(r) ==
  /\ req[r].pc = "complete_course"
  /\ \E course_id \in CourseInputs :
       LET rq == [Enter(req[r]) EXCEPT !.course_id = course_id]
           user == Val(rq.user) IN
       req' = [req EXCEPT ![r] =
         IF course_id = ""
         THEN Respond(rq, 400, [error |-> "Missing course_id"])
         ELSE IF ~IsNone(SelectCompletion(user.id, course_id))
         THEN Respond(get_db(rq), 200,
                [message |-> "Already completed", user |-> rq.user])
         ELSE [get_db(rq) EXCEPT !.pc = "cc_insert"]]
  /\ Connect(r)
  /\ UNCHANGED <<users, completions, ratings, now>>

\* execute_db('INSERT INTO completions (user_id, course_id) VALUES (?, ?)')
complete_insert(r) ==
  /\ req[r].pc = "cc_insert"
  /\ LET rq == get_db(req[r])
         user == Val(rq.user) IN
     IF CompletionsUniqueViolated(user.id, rq.course_id)
     THEN /\ req' = [req EXCEPT ![r] = Raise(rq, "IntegrityError")]
          /\ UNCHANGED completions
     ELSE /\ completions' = completions \cup
               {[id |-> NextId(completions), user_id |-> user.id,
                 course_id |-> rq.course_id]}
          /\ req' = [req EXCEPT ![r] = [rq EXCEPT !.pc = "cc_update"]]
  /\ Connect(r)
  /\ UNCHANGED <<users, ratings, now>>

\* the UPDATE without its WHERE clause: every user is paid
complete_award_all_users(r) ==
  /\ req[r].pc = "cc_update"
  /\ users' = {[row EXCEPT !.points = row.points + points_awarded] : row \in users}
  /\ req' = [req EXCEPT ![r] = [get_db(req[r]) EXCEPT !.pc = "cc_read"]]
  /\ Connect(r)
  /\ UNCHANGED <<completions, ratings, now>>

\* execute_db('UPDATE users SET points = points + ? WHERE id = ?')
complete_award(r) ==
  /\ req[r].pc = "cc_update"
  /\ LET user == Val(req[r].user) IN
     users' = {IF row.id = user.id
               THEN [row EXCEPT !.points = row.points + points_awarded]
               ELSE row : row \in users}
  /\ req' = [req EXCEPT ![r] = [get_db(req[r]) EXCEPT !.pc = "cc_read"]]
  /\ Connect(r)
  /\ UNCHANGED <<completions, ratings, now>>

\* the updated user is read back and returned
complete_respond(r) ==
  /\ req[r].pc = "cc_read"
  /\ LET rq == get_db(req[r])
         user == Val(rq.user) IN
     req' = [req EXCEPT ![r] =
       Respond(rq, 200, [message |-> "Course completed",
                         points_awarded |-> Some(points_awarded),
                         user |-> SelectUser(user.id)])]
  /\ Connect(r)
  /\ UNCHANGED <<users, completions, ratings, now>>

(***************************************************************************)
(* POST /api/rate_course                                                   *)
(***************************************************************************)
\* up to the query for an existing rating
rate_course(r) ==
  /\ req[r].pc = "rate_course"
  /\ \E json \in RateInputs :
       LET course_id == json.course_id
           data_rating == json.rating
           data == [Enter(req[r]) EXCEPT !.course_id = course_id,
                                         !.data_rating = data_rating]
           conv == int_rating(data_rating)
           rating == conv.value
           rq == [data EXCEPT !.rating = rating]
           user == Val(rq.user) IN
       req' = [req EXCEPT ![r] =
         IF conv.raised THEN Raise(data, "ValueError")
         ELSE IF course_id = "" \/ rating < 1 \/ rating > 5
         THEN Respond(rq, 400,
                [error |-> "Invalid course_id or rating (1-5 required)"])
         ELSE [get_db(rq) EXCEPT !.pc = "rc_write",
                                 !.existing = SelectRating(user.id, course_id)]]
  /\ Connect(r)
  /\ UNCHANGED <<users, completions, ratings, now>>

\* the UPDATE of the existing row, or the INSERT of a new one
rate_write(r) ==
  /\ req[r].pc = "rc_write"
  /\ LET rq == [get_db(req[r]) EXCEPT !.data_rating = JsonNull]
         user == Val(rq.user) IN
     IF ~IsNone(rq.existing)
     THEN /\ ratings' = {IF row.id = Val(rq.existing)
                         THEN [row EXCEPT !.rating = rq.rating]
                         ELSE row : row \in ratings}
          /\ req' = [req EXCEPT ![r] = [rq EXCEPT !.pc = "rc_avg"]]
     ELSE IF RatingsUniqueViolated(user.id, rq.course_id)
             \/ RatingsCheckViolated(rq.rating)
     THEN /\ req' = [req EXCEPT ![r] = Raise(rq, "IntegrityError")]
          /\ UNCHANGED ratings
     ELSE /\ ratings' = ratings \cup
               {[id |-> NextId(ratings), user_id |-> user.id,
                 course_id |-> rq.course_id, rating |-> rq.rating]}
          /\ req' = [req EXCEPT ![r] = [rq EXCEPT !.pc = "rc_avg"]]
  /\ Connect(r)
  /\ UNCHANGED <<users, completions, now>>

\* the new average and count are computed and returned
rate_respond(r) ==
  /\ req[r].pc = "rc_avg"
  /\ LET rq == get_db(req[r])
         avg == SelectAvgCount(rq.course_id) IN
     req' = [req EXCEPT ![r] =
       Respond(rq, 200, [message |-> "Rating saved",
                         average |-> avg.avg_rating, count |-> Some(avg.count)])]
  /\ Connect(r)
  /\ UNCHANGED <<users, completions, ratings, now>>

(***************************************************************************)
(* GET /api/courses                                                        *)
(***************************************************************************)
\* the catalog is loaded
courses(r) ==
  /\ req[r].pc = "idle"
  /\ \E catalog \in CatalogInputs :
       req' = [req EXCEPT ![r] =
         [IdleReq EXCEPT !.op = "courses", !.pending = catalog,
                         !.pc = IF catalog = <<>> THEN "courses_auth"
                                ELSE "courses_avg"]]
  /\ UNCHANGED <<users, completions, ratings, now, connections>>

\* one turn of the loop: the average and the count of the next course
courses_avg(r) ==
  /\ req[r].pc = "courses_avg"
  /\ LET rq == get_db(req[r])
         c == Head(rq.pending)
         avg == SelectAvgCount(c) IN
     req' = [req EXCEPT ![r] =
       [rq EXCEPT !.rows = @ \cup {[id |-> c, avg_rating |-> avg.avg_rating,
                                    rating_count |-> avg.count,
                                    completed |-> None]},
                  !.pending = Tail(@),
                  !.pc = IF Tail(rq.pending) = <<>> THEN "courses_auth"
                         ELSE "courses_avg"]]
  /\ Connect(r)
  /\ UNCHANGED <<users, completions, ratings, now>>

\* the headers a listing request carries: none, or a token that is no JWT,
\* is signed with another secret, has just expired, is fresh for a user id,
\* or names the id 0; none or a fresh token when there is no course to list
ListingHeaders(out) ==
  IF out = {}
  THEN {NoHeader, [scheme |-> "Bearer ", token |-> make_token(1, now)]}
  ELSE {NoHeader}
       \cup {[scheme |-> "Bearer ", token |-> tk] :
               tk \in {Garbage,
                       jwt_encode([sub |-> PyStr(1), exp |-> now + expires_minutes],
                                  OtherSecret),
                       make_token(1, now - expires_minutes),
                       make_token(0, now)}
                      \cup {make_token(id, now) : id \in 1..MaxUsers}}

\* the completions of all users: SELECT course_id FROM completions
completed_set_of_all_users(uid) == {row.course_id : row \in completions}

\* {r['course_id'] for r in user_comps}, user_comps being the rows of
\* SELECT course_id FROM completions WHERE user_id = ?
completed_set(uid) ==
  {row.course_id : row \in {x \in completions : x.user_id = uid}}

\* the Authorization header is read: with a token that verifies, every
\* course gets its completed flag; the list is returned
courses_completed(r) ==
  /\ req[r].pc = "courses_auth"
  /\ \E auth \in ListingHeaders(req[r].rows) :
       LET rq == [req[r] EXCEPT !.auth = auth, !.rows = {}]
           out == req[r].rows
           uid == IF auth.scheme = "Bearer " THEN verify_token(auth.token, now)
                  ELSE [raised |-> FALSE, value |-> None] IN
       req' = [req EXCEPT ![r] =
         IF uid.raised THEN Raise(rq, "PyJWTError")
         ELSE IF ~IsNone(uid.value) /\ Val(uid.value) # 0
         THEN Respond(get_db(rq), 200,
                [courses |-> {[c EXCEPT !.completed =
                                 Some(c.id \in completed_set(Val(uid.value)))] :
                              c \in out}])
         ELSE Respond(rq, 200, [courses |-> out])]
  /\ Connect(r)
  /\ UNCHANGED <<users, completions, ratings, now>>

(***************************************************************************)
(* Specifications                                                          *)
(***************************************************************************)
\* a response leaves the server in the step after the one that produced it
Delivered == \A r \in Reqs : req[r].pc # "done"

\* no request but r is being served
Alone(r) == \A q \in Reqs \ {r} : req[q].pc = "idle"

Next ==
  \/ \E r \in Reqs : Delivered /\ register(r)
  \/ \E r \in Reqs : Delivered /\ register_insert(r)
  \/ \E r \in Reqs : Delivered /\ register_respond(r)
  \/ \E r \in Reqs : Delivered /\ auth_required(r)
  \/ \E r \in Reqs : Delivered /\ me_completions(r)
  \/ \E r \in Reqs : Delivered /\ me_ratings(r)
  \/ \E r \in Reqs : Delivered /\ complete_course(r)
  \/ \E r \in Reqs : Delivered /\ complete_insert(r)
  \/ \E r \in Reqs : Delivered /\ complete_award(r)
  \/ \E r \in Reqs : Delivered /\ complete_respond(r)
  \/ \E r \in Reqs : Delivered /\ rate_course(r)
  \/ \E r \in Reqs : Delivered /\ rate_write(r)
  \/ \E r \in Reqs : Delivered /\ rate_respond(r)
  \/ \E r \in Reqs : Delivered /\ login(r)
  \/ \E r \in Reqs : Delivered /\ courses(r)
  \/ \E r \in Reqs : Delivered /\ courses_avg(r)
  \/ \E r \in Reqs : Delivered /\ courses_completed(r)
  \/ \E r \in Reqs : finish(r)

\* requests run concurrently, at one instant of the clock: the guard and
\* the listing are given tokens of every age
Spec == Init /\ [][Next]_vars

SeqNext ==
  \/ \E r \in Reqs : Alone(r) /\ register(r)
  \/ \E r \in Reqs : Alone(r) /\ register_insert(r)
  \/ \E r \in Reqs : Alone(r) /\ register_respond(r)
  \/ \E r \in Reqs : Alone(r) /\ auth_required(r)
  \/ \E r \in Reqs : Alone(r) /\ me_completions(r)
  \/ \E r \in Reqs : Alone(r) /\ me_ratings(r)
  \/ \E r \in Reqs : Alone(r) /\ complete_course(r)
  \/ \E r \in Reqs : Alone(r) /\ complete_insert(r)
  \/ \E r \in Reqs : Alone(r) /\ complete_award(r)
  \/ \E r \in Reqs : Alone(r) /\ complete_respond(r)
  \/ \E r \in Reqs : Alone(r) /\ rate_course(r)
  \/ \E r \in Reqs : Alone(r) /\ rate_write(r)
  \/ \E r \in Reqs : Alone(r) /\ rate_respond(r)
  \/ \E r \in Reqs : Alone(r) /\ login(r)
  \/ \E r \in Reqs : Alone(r) /\ courses(r)
  \/ \E r \in Reqs : Alone(r) /\ courses_avg(r)
  \/ \E r \in Reqs : Alone(r) /\ courses_completed(r)
  \/ \E r \in Reqs : Alone(r) /\ finish(r)
  \/ Tick

\* one request after the other, a request arriving only when no other is
\* being served, while time passes
SeqSpec == Init /\ [][SeqNext]_vars

(***************************************************************************)
(* Completion ledger: points and completion rows                           *)
(***************************************************************************)
CompletionsOf(user_id) == {row \in completions : row.user_id = user_id}
CompletionRows(user_id, course_id) ==
  {row \in completions : row.user_id = user_id /\ row.course_id = course_id}

\* C1: in every committed state of the store, also between the two writes
\* of a complete request, each user's points are 100 times the number of
\* that user's completion rows
C1_PointsMatchCompletions ==
  \A u \in users :
    u.points = points_awarded * Cardinality(CompletionsOf(u.id))

\* the requests of a user that have inserted the completion row and not yet
\* added the points
AwardPending(user_id) ==
  {r \in Reqs : req[r].pc = "cc_update" /\ Val(req[r].user).id = user_id}

\* C3: whatever the interleaving of the complete requests of a user, there
\* is at most one completion row per (user, course), and once no request
\* of the user stands between its two writes the user's points are 100 per
\* completion row: a row that a request reports or fails on is there once,
\* and is paid once
C3_OneRowOneAward ==
  /\ \A u \in users, c \in Courses :
       Cardinality(CompletionRows(u.id, c)) <= 1
  /\ \A u \in users :
       u.points + points_awarded * Cardinality(AwardPending(u.id))
         = points_awarded * Cardinality(CompletionsOf(u.id))
  /\ \A r \in Reqs :
       /\ req[r].op = "complete_course"
       /\ req[r].pc = "done"
       /\ req[r].resp.status \in {200, 500}
       => Cardinality(CompletionRows(Val(req[r].user).id, req[r].course_id)) = 1

\* two requests raced for the same completion: the loser has failed on the
\* row of the winner, which has finished, and the user has been paid once
C3_Witness ==
  \E r \in Reqs :
    /\ req[r].op = "complete_course"
    /\ req[r].pc = "done"
    /\ req[r].resp.exc = "IntegrityError"
    /\ Alone(r)
    /\ \E u \in users :
         /\ u.id = Val(req[r].user).id
         /\ u.points = points_awarded
         /\ Cardinality(CompletionRows(u.id, req[r].course_id)) = 1

\* C4: a complete request whose INSERT violates the unique constraint (it
\* passed the existence check, and the row was inserted since) ends with
\* the success outcome 'Already completed', not with an error
C4_LoserAlreadyCompleted ==
  [][\A r \in Reqs :
       /\ req[r].pc = "cc_insert"
       /\ req'[r] # req[r]
       /\ CompletionsUniqueViolated(Val(req[r].user).id, req[r].course_id)
       => /\ req'[r].pc = "done"
          /\ req'[r].resp.status = 200
          /\ req'[r].resp.message = "Already completed"]_vars

\* the users row with this id
UserRow(id) == CHOOSE row \in users : row.id = id
\* the points of a user in a users table, and the rows of a table for a
\* user and a course
PointsIn(table, id) == (CHOOSE row \in table : row.id = id).points
RowsIn(table, user_id, course_id) ==
  {row \in table : row.user_id = user_id /\ row.course_id = course_id}

\* C2: when complete requests run one after the other, an authenticated
\* request for (u, c) that finds no completion row goes on to insert it, and its
\* response reports 'Course completed' with 100 points awarded, u's points
\* being 100 more than before the request; a request that finds the row
\* reports 'Already completed' with no award and leaves every table as it
\* is; no request fails, and there is one row per completed (u, c)
C2_SequentialCompleteOnce ==
  [][\A r \in Reqs :
       req'[r].op = "complete_course" /\ ~IsNone(req'[r].user) =>
         LET rq == req'[r]
             u == Val(rq.user).id
             before == Val(rq.user).points IN
         /\ req[r].pc = "complete_course" /\ rq.course_id # "" =>
              IF CompletionRows(u, rq.course_id) = {}
              THEN rq.pc = "cc_insert"
              ELSE /\ rq.pc = "done"
                   /\ rq.resp.message = "Already completed"
                   /\ UNCHANGED <<users, completions, ratings>>
         /\ req[r].pc = "cc_insert" /\ rq # req[r] => rq.pc = "cc_update"
         /\ rq.pc = "done" =>
              /\ rq.resp.status = (IF rq.course_id = "" THEN 400 ELSE 200)
              /\ rq.resp.message = "Course completed" =>
                   /\ rq.resp.points_awarded = Some(points_awarded)
                   /\ Val(rq.resp.user).points = before + points_awarded
                   /\ PointsIn(users', u) = before + points_awarded
                   /\ Cardinality(RowsIn(completions', u, rq.course_id)) = 1
              /\ rq.resp.message = "Already completed" =>
                   /\ rq.resp.points_awarded = None
                   /\ rq.resp.user = rq.user
                   /\ PointsIn(users', u) = before
                   /\ Cardinality(RowsIn(completions', u, rq.course_id)) = 1
              /\ rq.resp.status = 200 =>
                   rq.resp.message \in {"Course completed", "Already completed"}
    ]_vars

\* a later complete of a course is answered 'Already completed', the user
\* holding the 100 points of the first one
C2_Witness ==
  \E r \in Reqs :
    /\ req[r].op = "complete_course"
    /\ req[r].pc = "done"
    /\ req[r].resp.message = "Already completed"
    /\ Val(req[r].user).points = points_awarded
    /\ UserRow(Val(req[r].user).id).points = points_awarded

(***************************************************************************)
(* Session guard and tokens                                                *)
(***************************************************************************)
\* the positions inside the three protected view functions
BodyPcs ==
  {"me", "me_ratings", "complete_course", "cc_insert", "cc_update", "cc_read",
   "rate_course", "rc_write", "rc_avg"}

\* C5: a request for a protected operation whose Authorization header is
\* absent or does not start with 'Bearer ', or whose token does not verify,
\* or whose verified user id has no row in users, is answered 401 in the
\* step of the guard, with users, completions and ratings unchanged; and
\* the view function is only ever entered for a user who has a row
C5_GuardRejects ==
  [][/\ \A r \in Reqs :
          req[r].pc = "idle" /\ req'[r].op \in ProtectedOps =>
            LET rq == req'[r]
                id == verify_token(rq.auth.token, now).value
                rejected ==
                  \/ rq.auth.scheme # "Bearer "
                  \/ IsNone(id)
                  \/ ~\E row \in users : row.id = Val(id) IN
            rejected =>
              /\ rq.pc = "done"
              /\ rq.resp.status = 401
              /\ rq.resp.error = "Unauthorized"
              /\ UNCHANGED <<users, completions, ratings>>
     /\ \A r \in Reqs :
          req'[r].pc \in BodyPcs =>
            /\ ~IsNone(req'[r].user)
            /\ \E row \in users' : row.id = Val(req'[r].user).id
    ]_vars

\* a request with a well-signed, unexpired token for a user id that has no
\* row was answered 401
C5_Witness ==
  \E r \in Reqs :
    /\ req[r].op = "complete_course"
    /\ req[r].pc = "done"
    /\ req[r].resp.status = 401
    /\ req[r].auth.scheme = "Bearer "
    /\ LET id == verify_token(req[r].auth.token, now).value IN
       /\ ~IsNone(id)
       /\ Val(id) # 0
       /\ ~\E row \in users : row.id = Val(id)

\* C6: a token that make_token issued for user id X at time t verifies to X
\* at every time before t + 7 days and to None at every time after it; the
\* token of a register response is make_token's for the new user's id, and
\* verifies to that id until it expires and to None afterwards
C6_TokenUntilExpiry ==
  [][/\ \A X \in 1..MaxUsers, age \in Ages :
          LET t == now' - age
              id == verify_token(make_token(X, t), now').value IN
          /\ now' < t + 60 * 24 * 7 => id = Some(X)
          /\ now' > t + 60 * 24 * 7 => id = None
     /\ \A r \in Reqs :
          /\ req[r].pc = "reg_insert" /\ req'[r].pc = "reg_read" =>
               /\ req'[r].resp.token = Some(make_token(req'[r].user_id, now))
               /\ Val(req'[r].resp.token).exp = now + 60 * 24 * 7
          /\ req'[r].op = "register" /\ req'[r].pc = "done"
               /\ req'[r].resp.status = 200 =>
               LET tk == Val(req'[r].resp.token)
                   X == Val(req'[r].resp.user).id
                   id == verify_token(tk, now').value IN
               /\ X = req'[r].user_id
               /\ now' < tk.exp => id = Some(X)
               /\ now' > tk.exp => id = None
    ]_vars

\* the token of a register response is past its expiry
C6_Witness ==
  \E r \in Reqs :
    /\ req[r].op = "register"
    /\ req[r].pc = "done"
    /\ req[r].resp.status = 200
    /\ now > Val(req[r].resp.token).exp
    /\ verify_token(Val(req[r].resp.token), now).value = None

\* a presented token that is no JWT, is signed with another secret, is
\* expired, or whose subject is no integer
InvalidToken(tk) ==
  \/ ~tk.wellformed
  \/ tk.key # JWT_SECRET
  \/ tk.exp < now
  \/ PyInt(tk.sub).raised

\* C7: verify_token raises nothing and returns None for every invalid
\* token, and a request that carries one is answered 401 by the guard, not
\* 500
C7_VerifyNeverRaises ==
  [][/\ \A tk \in PresentedTokens :
          LET v == verify_token(tk, now) IN
          /\ ~v.raised
          /\ InvalidToken(tk) => v.value = None
     /\ \A r \in Reqs :
          /\ req[r].pc = "idle"
          /\ req'[r].op \in ProtectedOps
          /\ req'[r].auth.scheme = "Bearer "
          /\ InvalidToken(req'[r].auth.token)
          => /\ req'[r].pc = "done"
             /\ req'[r].resp.status = 401
             /\ req'[r].resp.exc = ""
    ]_vars

\* requests with a token signed with another secret, with an expired token
\* and with a subject that is no number would each be answered 401: here
\* the one signed with another secret
C7_Witness ==
  \E r \in Reqs :
    /\ req[r].pc = "done"
    /\ req[r].resp.status = 401
    /\ req[r].auth.scheme = "Bearer "
    /\ req[r].auth.token.wellformed
    /\ req[r].auth.token.key # JWT_SECRET

(***************************************************************************)
(* Rating ledger                                                           *)
(***************************************************************************)
\* C8: when rate requests run one after the other, the write of a valid
\* rate(u, c, r) inserts the row of (u, c) if there is none and otherwise
\* overwrites the rating of that very row, every other row staying as it
\* is; from the write to the response there is exactly one row for (u, c)
\* and its rating is r; no request whose rating is a number fails
C8_SequentialUpsert ==
  [][\A r \in Reqs :
       req'[r].op = "rate_course" /\ ~IsNone(req'[r].user) =>
         LET rq == req'[r]
             u == Val(rq.user).id
             c == rq.course_id
             old == RowsIn(ratings, u, c)
             new == RowsIn(ratings', u, c) IN
         /\ req[r].pc = "rc_write" /\ rq # req[r] =>
              /\ rq.pc = "rc_avg"
              /\ ratings \ old = ratings' \ new
              /\ IF old = {}
                 THEN \E row \in new : row.id \notin {x.id : x \in ratings}
                 ELSE {row.id : row \in new} = {row.id : row \in old}
         /\ rq.pc = "rc_avg" \/ (rq.pc = "done" /\ rq.resp.status = 200) =>
              /\ Cardinality(new) = 1
              /\ \A row \in new : row.rating = rq.rating
         /\ rq.pc = "done" /\ rq.resp.exc # "ValueError" =>
              rq.resp.status =
                (IF c = "" \/ rq.rating \notin 1..5 THEN 400 ELSE 200)
    ]_vars

\* a rate request took the UPDATE path: the row it found holds its rating,
\* and is the only row of the course
C8_Witness ==
  \E r \in Reqs :
    /\ req[r].op = "rate_course"
    /\ req[r].pc = "done"
    /\ req[r].resp.status = 200
    /\ ~IsNone(req[r].existing)
    /\ req[r].rating = 5
    /\ \E row \in ratings : row.id = Val(req[r].existing) /\ row.rating = 5
    /\ req[r].resp.count = Some(1)

\* C9: in every state of the store, under any interleaving of the rate
\* requests, there is at most one rating row per (user_id, course_id) and
\* every rating is in 1..5
C9_RatingsUniqueInRange ==
  /\ \A a, b \in ratings :
       a.user_id = b.user_id /\ a.course_id = b.course_id => a = b
  /\ \A row \in ratings : row.rating \in 1..5

\* two requests raced to insert the rating of the same (user, course): the
\* second INSERT was refused and there is one row
C9_Witness ==
  \E r \in Reqs :
    /\ req[r].op = "rate_course"
    /\ req[r].pc = "done"
    /\ req[r].resp.exc = "IntegrityError"
    /\ Cardinality(RowsIn(ratings, Val(req[r].user).id, req[r].course_id)) = 1

\* C10: a rate request that found no row and whose INSERT violates the
\* unique constraint is handled as the upsert: its rating overwrites the
\* row and it does not end with an error
C10_LoserUpserts ==
  [][\A r \in Reqs :
       /\ req[r].pc = "rc_write"
       /\ req'[r] # req[r]
       /\ IsNone(req[r].existing)
       /\ RatingsUniqueViolated(Val(req[r].user).id, req[r].course_id)
       => /\ req'[r].resp.exc = ""
          /\ req'[r].resp.status \in {0, 200}
          /\ \A row \in RowsIn(ratings', Val(req[r].user).id, req[r].course_id) :
               row.rating = req[r].rating]_vars

(***************************************************************************)
(* Aggregates                                                              *)
(***************************************************************************)
\* the rating rows of a course, and the sum of their ratings
RatingRows(c) == {row \in ratings : row.course_id = c}
CountWith(rows, v) == Cardinality({row \in rows : row.rating = v})
TotalRating(rows) ==
  1 * CountWith(rows, 1) + 2 * CountWith(rows, 2) + 3 * CountWith(rows, 3)
  + 4 * CountWith(rows, 4) + 5 * CountWith(rows, 5)
\* the quotient total/count is kept as the pair <<total, count>>
Aggregate(c) ==
  [average |-> IF RatingRows(c) = {} THEN None
               ELSE Some(<<TotalRating(RatingRows(c)), Cardinality(RatingRows(c))>>),
   count |-> Cardinality(RatingRows(c))]

\* C11: the count that rate returns after its write, and that the course
\* listing returns for every course of the catalog, is the number of
\* rating rows of the course, one per user who rated it, and the average is
\* the sum of their ratings divided by the count; for a course without a
\* rating row the count is 0 and the average is null
C11_AggregateOfRows ==
  [][\A r \in Reqs :
       LET rq == req'[r] IN
       /\ req[r].pc = "rc_avg" /\ rq.pc = "done" =>
            /\ rq.resp.count = Some(Aggregate(rq.course_id).count)
            /\ rq.resp.average = Aggregate(rq.course_id).average
            /\ Aggregate(rq.course_id).count
                 = Cardinality({row.user_id : row \in RatingRows(rq.course_id)})
            /\ Aggregate(rq.course_id).count >= 1
       /\ req[r].pc = "courses_auth" /\ rq.pc = "done" =>
            /\ {c.id : c \in rq.resp.courses} \in {{}, {Catalog[i] : i \in 1..Len(Catalog)}}
            /\ \A c \in rq.resp.courses :
                 /\ c.rating_count = Aggregate(c.id).count
                 /\ c.avg_rating = Aggregate(c.id).average
                 /\ RatingRows(c.id) = {} =>
                      c.rating_count = 0 /\ c.avg_rating = None
    ]_vars

\* two users rated the course with 1 and 5: the listing shows the average
\* 6/2 = 3.0 and the count 2 for it, and null and 0 for the unrated course
C11_Witness ==
  \E r \in Reqs :
    /\ req[r].op = "courses"
    /\ req[r].pc = "done"
    /\ \E c \in req[r].resp.courses :
         c.id = "c1" /\ c.rating_count = 2 /\ c.avg_rating = Some(<<6, 2>>)
    /\ \E c \in req[r].resp.courses :
         c.id = "c2" /\ c.rating_count = 0 /\ c.avg_rating = None
    /\ Cardinality(RatingRows("c1")) = 2

(***************************************************************************)
(* Credential store                                                        *)
(***************************************************************************)
ConflictError == "User with that email or username already exists"
ValidationError ==
  "Invalid input, provide username, email and password (min 6 chars)"

C13_RegisterValidation ==
  [][\A r \in Reqs :
       LET rq == req'[r] IN
       /\ req[r].pc = "idle" /\ rq.op = "register" =>
            IF rq.username = "" \/ rq.email = "" \/ Len(rq.password) < 6
            THEN /\ rq.pc = "done"
                 /\ rq.resp.status = 400
                 /\ rq.resp.error = ValidationError
                 /\ users' = users
            ELSE (~\E u \in users :
                     u.username = rq.username \/ u.email = rq.email)
                 => rq.pc = "reg_insert" /\ users' = users
       /\ req[r].pc = "reg_insert" /\ rq # req[r] =>
            /\ rq.pc = "reg_read"
            /\ \E u \in users' :
                 /\ u \notin users
                 /\ users' = users \cup {u}
                 /\ u.id = rq.user_id
                 /\ u.username = rq.username
                 /\ u.email = rq.email
                 /\ u.points = 0
                 /\ u.password_hash.salt \in Salts
                 /\ check_password_hash(u.password_hash, req[r].password)
       /\ req[r].pc = "reg_read" /\ rq # req[r] =>
            /\ rq.pc = "done"
            /\ rq.resp.status = 200
            /\ users' = users
            /\ rq.resp.user = Some([id |-> rq.user_id, username |-> rq.username,
                                    email |-> rq.email, points |-> 0])
    ]_vars

\* a register call was answered 200 with its new user, who has no points
C13_Witness ==
  \E r \in Reqs :
    /\ req[r].op = "register"
    /\ req[r].pc = "done"
    /\ req[r].resp.status = 200
    /\ \E u \in users :
         /\ u.id = Val(req[r].resp.user).id
         /\ u.username = req[r].username
         /\ u.points = 0

\* what the caller of login sees
Outcome(rq) ==
  [status |-> rq.resp.status, error |-> rq.resp.error,
   token |-> rq.resp.token, user |-> rq.resp.user]
LoginRequest(data) ==
  [IdleReq EXCEPT !.op = "login", !.email = Lower(data.email),
                  !.password = data.password]

\* C14: for every reachable users table with a user u, and the table that
\* differs from it only in that u is missing, a login with u's email and a
\* password that is not u's has the same outcome (status, error, no token,
\* no user) against both; and every login with an email and a password
\* that match no user is answered 401 'Invalid credentials'
C14_LoginIndistinguishable ==
  /\ \A data \in LoginInputs, u \in users :
       LET rq == LoginRequest(data) IN
       /\ u.email = rq.email
       /\ ~check_password_hash(u.password_hash, rq.password)
       => Outcome(login_response(users, rq))
            = Outcome(login_response(users \ {u}, rq))
  /\ \A r \in Reqs :
       /\ req[r].op = "login" /\ req[r].pc = "done"
       /\ req[r].email # "" /\ req[r].password # ""
       /\ ~\E u \in users :
             /\ u.email = req[r].email
             /\ check_password_hash(u.password_hash, req[r].password)
       => /\ req[r].resp.status = 401
          /\ req[r].resp.error = "Invalid credentials"
          /\ req[r].resp.token = None
          /\ req[r].resp.user = None

\* a login with the email of a user and a wrong password was answered 401,
\* while another email has no user
C14_Witness ==
  \E r \in Reqs :
    /\ req[r].op = "login"
    /\ req[r].pc = "done"
    /\ req[r].resp.status = 401
    /\ req[r].password # ""
    /\ \E u \in users : u.email = req[r].email
    /\ \E data \in LoginInputs :
         data.email # "" /\ ~\E u \in users : u.email = Lower(data.email)

(***************************************************************************)
(* Course listing                                                          *)
(***************************************************************************)
\* C15: the course listing is answered 200 with the courses it has read,
\* whatever the Authorization header is; with no 'Bearer ' header, or with
\* a token that is no JWT, is signed with another secret, has expired or
\* has no integer subject, no course carries the completed key; with an
\* unexpired token signed for user id u every course carries it, and it is
\* true exactly for the courses with a completion row of u
C15_ListingPersonalised ==
  [][\A r \in Reqs :
       req[r].pc = "courses_auth" /\ req'[r] # req[r] =>
         LET rq == req'[r]
             tk == rq.auth.token IN
         /\ rq.pc = "done"
         /\ rq.resp.status = 200
         /\ {c.id : c \in rq.resp.courses} = {c.id : c \in req[r].rows}
         /\ rq.auth.scheme # "Bearer " \/ InvalidToken(tk) \/ tk.exp <= now
            => \A c \in rq.resp.courses : c.completed = None
         /\ \A u \in 1..MaxUsers :
              /\ rq.auth.scheme = "Bearer " /\ tk.wellformed /\ tk.key = JWT_SECRET
              /\ now < tk.exp /\ tk.sub = PyStr(u)
              => \A c \in rq.resp.courses :
                   c.completed = Some(\E row \in completions :
                                       row.user_id = u /\ row.course_id = c.id)
    ]_vars

\* a listing for a user with a fresh token who has completed c1 and not c2
C15_Witness ==
  \E r \in Reqs :
    /\ req[r].op = "courses"
    /\ req[r].pc = "done"
    /\ req[r].resp.status = 200
    /\ req[r].auth.scheme = "Bearer "
    /\ \E c \in req[r].resp.courses : c.id = "c1" /\ c.completed = Some(TRUE)
    /\ \E c \in req[r].resp.courses : c.id = "c2" /\ c.completed = Some(FALSE)

(***************************************************************************)
(* Rating validation                                                       *)
(***************************************************************************)
\* the rating a client sent is one of the numbers 1, 2, 3, 4, 5
InRange(data_rating) ==
  /\ data_rating.kind = "number"
  /\ data_rating.tenths \in {10 * k : k \in 1..5}

\* C16: an authenticated rate call whose rating is not one of 1..5 (a
\* missing rating included) or whose course_id is missing is answered with
\* the validation error (400), and the ratings table stays as it is
C16_InvalidRatingRejected ==
  [][\A r \in Reqs :
       req[r].pc = "rate_course" /\ req'[r] # req[r] =>
         LET rq == req'[r] IN
         ~InRange(rq.data_rating) \/ rq.course_id = ""
         => /\ rq.pc = "done"
            /\ rq.resp.status = 400
            /\ rq.resp.error = "Invalid course_id or rating (1-5 required)"
            /\ ratings' = ratings
    ]_vars

(***************************************************************************)
(* Frame conditions                                                        *)
(***************************************************************************)
\* C17: in every step of every operation each user row stays in the
\* table with its id, username, email and password hash, and its points
\* do not decrease; the points change only in the award step of a complete
\* request of that very user, by exactly 100, and every 100 points of a
\* user are backed by a completion row of that user of their own
C17_PointsOnlyByCompletion ==
  [][\A u \in users :
       \E v \in users' :
         /\ v.id = u.id
         /\ v.username = u.username
         /\ v.email = u.email
         /\ v.password_hash = u.password_hash
         /\ v.points >= u.points
         /\ v.points # u.points =>
              /\ v.points = u.points + points_awarded
              /\ \E r \in Reqs :
                   /\ req[r].op = "complete_course"
                   /\ req[r].pc = "cc_update" /\ req'[r].pc = "cc_read"
                   /\ Val(req[r].user).id = u.id
                   /\ RowsIn(completions, u.id, req[r].course_id) # {}
              /\ v.points <= points_awarded
                   * Cardinality({row \in completions' : row.user_id = u.id})
    ]_vars

\* a complete request has just paid its user, who holds 100 points, while
\* another user holds none
C17_Witness ==
  \E r \in Reqs :
    /\ req[r].pc = "cc_read"
    /\ \E u, v \in users :
         /\ u.id = Val(req[r].user).id
         /\ u.points = points_awarded
         /\ v.id # u.id
         /\ v.points = 0

(***************************************************************************)
(* Storage connection                                                      *)
(***************************************************************************)
\* C18: a request connects to the store at most once, on its first query,
\* and the connections that are open are exactly those of the requests
\* being served: when a request has ended, on whichever path (success,
\* validation failure, 401 of the guard, unhandled exception), its
\* connection is closed, and a request that is not being served holds none
C18_ConnectionScoped ==
  /\ \A r \in Reqs :
       /\ req[r].connects <= 1
       /\ ~IsNone(req[r].g_database) <=> req[r].connects = 1
       /\ req[r].pc = "idle" => IsNone(req[r].g_database)
  /\ connections = Cardinality({r \in Reqs : ~IsNone(req[r].g_database)})

\* a request ends with an unhandled constraint violation, holding the one
\* connection that is open: the request it raced with has ended and its
\* connection is closed
C18_Witness ==
  \E r \in Reqs :
    /\ req[r].pc = "done"
    /\ req[r].resp.status = 500
    /\ req[r].resp.exc = "IntegrityError"
    /\ req[r].connects = 1
    /\ \A q \in Reqs \ {r} : req[q].pc = "idle" /\ IsNone(req[q].g_database)
    /\ connections = 1

\* the positions inside complete_course and rate_course
WritePcs ==
  {"complete_course", "cc_insert", "cc_update", "cc_read",
   "rate_course", "rc_write", "rc_avg"}

\* C19: the guard hands a request to the view function with the row of the
\* user X that its token was issued for; in every step of a complete or
\* rate request of X, also while requests of other users are being
\* served, the users row (so the points) of every other user Y, Y's
\* completion rows and Y's rating rows stay as they are, and the user a
\* response carries is X
C19_OnlyOwnRows ==
  [][\A r \in Reqs :
       LET rq == req'[r] IN
       /\ req[r].pc = "idle" /\ rq.op \in ProtectedOps /\ rq.pc = rq.op =>
            /\ rq.auth.token.sub = PyStr(Val(rq.user).id)
            /\ \E u \in users : rq.user = Some(UserColumns(u))
       /\ req[r].pc \in WritePcs /\ rq # req[r] =>
            LET X == Val(req[r].user).id IN
            /\ rq.user = req[r].user
            /\ \A Y \in users : Y.id # X => Y \in users'
            /\ {row \in completions' : row.user_id # X}
                 = {row \in completions : row.user_id # X}
            /\ {row \in ratings' : row.user_id # X}
                 = {row \in ratings : row.user_id # X}
            /\ rq.pc = "done" /\ ~IsNone(rq.resp.user) =>
                 Val(rq.resp.user).id = X
    ]_vars

\* the rate request of one user and the complete request of another have
\* both written, and both users have their own row only
C19_Witness ==
  \E r, q \in Reqs :
    /\ req[r].pc = "rc_avg"
    /\ req[q].pc = "cc_read"
    /\ Val(req[r].user).id # Val(req[q].user).id
    /\ \A row \in ratings : row.user_id = Val(req[r].user).id
    /\ \A row \in completions : row.user_id = Val(req[q].user).id
    /\ \E u \in users : u.id = Val(req[r].user).id /\ u.points = 0

(***************************************************************************)
(* Issued tokens                                                           *)
(***************************************************************************)
\* C20: the token in the 200 response of register names the id of the user
\* that this call created, and the token in the 200 response of login the
\* id of the user whose email was looked up and whose hash verified the
\* password; it is one of the tokens that clients present, and until it
\* expires it verifies to that id and the guard, given this token, enters
\* the protected operation with that user's row
C20_TokenOfItsUser ==
  \A r \in Reqs :
    /\ req[r].pc = "done"
    /\ req[r].op \in {"register", "login"}
    /\ req[r].resp.status = 200
    => LET tk == Val(req[r].resp.token)
           u == Val(req[r].resp.user)
           guarded == wrapper([IdleReq EXCEPT
                        !.op = "me",
                        !.auth = [scheme |-> "Bearer ", token |-> tk]]) IN
       /\ tk.sub = PyStr(u.id)
       /\ tk \in PresentedTokens
       /\ \E row \in users :
            /\ UserColumns(row) = u
            /\ row.email = req[r].email
            /\ req[r].op = "register" =>
                 row.id = req[r].user_id /\ row.username = req[r].username
            /\ req[r].op = "login" =>
                 check_password_hash(row.password_hash, req[r].password)
       /\ now < tk.exp =>
            /\ verify_token(tk, now).value = Some(u.id)
            /\ guarded.pc = "me"
            /\ guarded.user = Some(u)

\* a login of the second user was answered with a token that names the id 2
C20_Witness ==
  \E r \in Reqs :
    /\ req[r].op = "login"
    /\ req[r].pc = "done"
    /\ req[r].resp.status = 200
    /\ Val(req[r].resp.user).id = 2
    /\ Val(req[r].resp.token).sub = PyStr(2)
    /\ now < Val(req[r].resp.token).exp
    /\ Cardinality(users) = 2
=============================================================================
